---- MODULE Spec2Model ----
(***************************************************************************)
(* Campaign dispatch and scheduling engine of webpush-backend.             *)
(*                                                                         *)
(* Two implementations live in the repository and both are modelled:       *)
(*   - src/scheduler.js : SchedulerService (cron polls, one-shot timers,   *)
(*     sendCampaign with batches of concurrent sends, stats upsert);       *)
(*   - src/server.js    : executeScheduledCampaigns / the send endpoint    *)
(*     with sendCampaignNotifications (sequential sends).                  *)
(* Every await of the source is one step of the model: the state written   *)
(* by a query is visible to the other asynchronous invocations before the  *)
(* code after the await runs.                                              *)
(***************************************************************************)
EXTENDS Integers, Sequences, FiniteSets, TLC

\* ---------------------------------------------------------------- bounds
\* Subscribers in the store.
NumSubs == 3
\* The batch size of sendCampaign; the source uses 50 (src/scheduler.js:298),
\* scaled down so that a dispatch with NumSubs targets has several batches.
batchSize == 2
\* The clock runs from 0 to MaxTime (minutes).
MaxTime == 2
\* Minutes per calendar date of the scaled clock.
DayLength == 2
\* Dispatches (calls of sendCampaign / sendCampaignNotifications) per run.
MaxDispatches == 2
\* Days the recurring check is followed tick by tick.
TickDays == 2

NULL == "null"
\* A timestamp column holding NULL.
NoTime == 0 - 1
Campaigns == {"c1", "c2"}
Sites == {"A", "B"}
Segments == {"g1"}
Subs == 1..NumSubs
Times == 0..MaxTime

\* Asynchronous invocations that can run a dispatch.
\*   imm     : sendCampaign started by scheduleAt with a past timestamp
\*   manual  : POST /api/campaigns/:id/send
\*   poll1/2 : checkScheduledCampaigns (overlapping ticks or two instances)
\*   xpoll1/2: executeScheduledCampaigns (overlapping ticks or two instances)
\*   job1/2  : cron jobs created by scheduleAt
\*   rpoll1/2: checkRecurringCampaigns (overlapping ticks)
SchedPolls == {"poll1", "poll2"}
ServerPolls == {"xpoll1", "xpoll2"}
Jobs == {"job1", "job2"}
RecurPolls == {"rpoll1", "rpoll2"}
Tasks == {"imm", "manual"} \cup SchedPolls \cup ServerPolls \cup Jobs \cup RecurPolls

VARIABLES
  now,              \* wall clock
  campaigns,        \* table campaigns: id -> row
  sites,            \* table sites: id -> [present, vapid_valid]
  subscribers,      \* table subscribers: id -> [site_id, is_active]
  segment_members,  \* table segment_members: segment -> set of subscriber ids
  deliveries,       \* table deliveries: set of rows
  campaign_stats,   \* table campaign_stats: set of rows, key (campaign_id, date)
  vapidDetails,     \* web-push module global of the scheduler process
  disp,             \* per invocation: the dispatch it is running
  dispatches,       \* history: the dispatches started so far, in order
  poll,             \* per poll invocation: position in its loop
  jobs,             \* cron jobs created by scheduleAt
  scheduledJobs,    \* SchedulerService.scheduledJobs: campaign id -> job
  cancelLog,        \* history: the cancel calls made and what they returned
  calc,             \* the last call of the recurrence logic or of the stats
                    \* refresh made on its own: arguments and result
  proc              \* the process: SchedulerService.isRunning, and whether it exited

vars == <<now, campaigns, sites, subscribers, segment_members, deliveries,
          campaign_stats, vapidDetails, disp, dispatches, poll, jobs,
          scheduledJobs, cancelLog, calc, proc>>

store == <<campaigns, sites, subscribers, segment_members, deliveries, campaign_stats>>

\* ---------------------------------------------------------------- helpers
RECURSIVE SortedSeq(_)
SortedSeq(S) ==
  IF S = {} THEN <<>>
  ELSE LET m == CHOOSE x \in S : \A y \in S : x <= y
       IN <<m>> \o SortedSeq(S \ {m})

Range(f) == {f[x] : x \in DOMAIN f}

Min(a, b) == IF a <= b THEN a ELSE b

\* sent_at::date / CURRENT_DATE
DateOf(t) == t \div DayLength

IdleDisp ==
  [pc |-> "idle", impl |-> NULL, id |-> 0, campaignId |-> NULL, campaign |-> NULL,
   subs |-> <<>>, i |-> 0, att |-> [s \in Subs |-> "none"],
   keys |-> [s \in Subs |-> NULL],
   successCount |-> 0, failureCount |-> 0, err |-> NULL]

\* Outcomes of webpush.sendNotification: resolved, rejected with statusCode
\* 410, rejected with any other status code.
Outcomes == {"ok", "gone", "err"}


\* ------------------------------------------------- sendCampaign (scheduler.js)
\* batch = subscribers.slice(i, i + batchSize)
CurrentBatch(d) ==
  {d.subs[k] : k \in (d.i + 1)..Min(d.i + batchSize, Len(d.subs))}

\* Mutant: the batch is not awaited.
BatchResolved_NoAwait(d) == TRUE

\* await Promise.all(batchPromises): every attempt of the batch has finished
BatchResolved(d) == \A s \in CurrentBatch(d) : d.att[s] = "done"

\* WHERE site_id = $1 AND is_active = true [AND id IN (segment members)]
TargetSubscribers(campaign) ==
  {s \in Subs :
     /\ subscribers[s].site_id = campaign.site_id
     /\ subscribers[s].is_active
     /\ (campaign.segment_id # NULL => s \in segment_members[campaign.segment_id])}

FinalStatus(campaign) ==
  IF campaign.delivery_type = "recurring" THEN "active" ELSE "completed"

\* INSERT INTO deliveries (campaign_id, subscriber_id, status) VALUES (.., 'queued')
QueuedRow(d, s) ==
  [id |-> <<d.id, s>>, campaign_id |-> d.campaignId, subscriber_id |-> s,
   status |-> "queued", sent_at |-> NoTime, error_message |-> NULL]

\* UPDATE deliveries SET status = 'sent', sent_at = CURRENT_TIMESTAMP WHERE id = $1
MarkSent(d, s) ==
  {IF r.id = <<d.id, s>> THEN [r EXCEPT !.status = "sent", !.sent_at = now] ELSE r
     : r \in deliveries}

\* Mutant: the UPDATE in the catch matches no row.
MarkFailed_NoRow(d, s, msg) == deliveries

\* UPDATE deliveries SET status = 'failed', error_message = $1
\*   WHERE campaign_id = $2 AND subscriber_id = $3
MarkFailed(d, s, msg) ==
  {IF r.campaign_id = d.campaignId /\ r.subscriber_id = s
     THEN [r EXCEPT !.status = "failed", !.error_message = msg] ELSE r
     : r \in deliveries}

\* FROM deliveries WHERE campaign_id = $1 AND sent_at::date = CURRENT_DATE
StatsSource(c) ==
  {r \in deliveries :
     r.campaign_id = c /\ r.sent_at # NoTime /\ DateOf(r.sent_at) = DateOf(now)}

\* The value of the column ctr in a row inserted without it: the column's
\* default.
CtrDefault == 0

\* ROUND((clicked_count::decimal / sent_count) * 100, 2) when sent_count > 0,
\* else 0; in hundredths of a percent.
Ctr(clicked, sent) ==
  IF sent > 0 THEN (2 * 10000 * clicked + sent) \div (2 * sent) ELSE 0

\* updateCampaignStats: INSERT ... SELECT ... GROUP BY campaign_id
\*   ON CONFLICT (campaign_id, date) DO UPDATE SET ..., ctr = ...
\* The INSERT lists no ctr column; the DO UPDATE sets it.
UpdateCampaignStats(c) ==
  LET src == StatsSource(c)
      old == {x \in campaign_stats : x.campaign_id = c /\ x.date = DateOf(now)}
      sent == Cardinality({r \in src : r.status = "sent"})
      clicked == Cardinality({r \in src : r.status = "clicked"})
      row == [campaign_id |-> c, date |-> DateOf(now),
              sent_count |-> sent,
              failed_count |-> Cardinality({r \in src : r.status = "failed"}),
              clicked_count |-> clicked,
              unique_clicks |->
                Cardinality({r.subscriber_id : r \in {x \in src : x.status = "clicked"}}),
              ctr |-> IF old = {} THEN CtrDefault ELSE Ctr(clicked, sent)]
  IN IF src = {} THEN campaign_stats
     ELSE (campaign_stats \ old) \cup {row}

\* The call sendCampaign(campaignId) by invocation t: pool.connect() and the
\* campaign query are issued.
CallSendCampaign(t, c) ==
  /\ Len(dispatches) < MaxDispatches
  /\ disp[t].pc = "idle"
  /\ disp' = [disp EXCEPT ![t] = [IdleDisp EXCEPT !.pc = "load", !.impl = "sched",
                                    !.id = Len(dispatches) + 1, !.campaignId = c]]
  /\ dispatches' = Append(dispatches, [campaignId |-> c, task |-> t, impl |-> "sched", at |-> now])

\* The campaign query returns; setVapidDetails; the subscriber query is issued.
SendLoadCampaign(t) ==
  LET d == disp[t]
      row == campaigns[d.campaignId]
  IN /\ d.pc = "load" /\ d.impl = "sched"
     /\ IF ~row.present \/ ~sites[row.site_id].present
          THEN /\ disp' = [disp EXCEPT ![t].pc = "failed", ![t].err = "NotFound"]
               /\ UNCHANGED vapidDetails
        ELSE IF ~sites[row.site_id].vapid_valid
          THEN /\ disp' = [disp EXCEPT ![t].pc = "failed", ![t].err = "Config"]
               /\ UNCHANGED vapidDetails
        ELSE /\ disp' = [disp EXCEPT ![t].pc = "subs", ![t].campaign = row]
             /\ vapidDetails' = row.site_id
     /\ UNCHANGED <<proc, calc, now, store, dispatches, poll, jobs, scheduledJobs, cancelLog>>

\* The subscriber query returns; the first batch is mapped.
SendLoadSubscribers(t) ==
  LET d == disp[t]
  IN /\ d.pc = "subs" /\ d.impl = "sched"
     /\ disp' = [disp EXCEPT ![t].pc = "batch", ![t].i = 0,
                             ![t].subs = SortedSeq(TargetSubscribers(d.campaign))]
     /\ UNCHANGED <<proc, calc, now, store, vapidDetails, dispatches, poll, jobs, scheduledJobs,
                    cancelLog>>

\* The INSERT of the queued row returns and webpush.sendNotification is called;
\* keys records the VAPID details the call signs with, the module global.
AttemptInsert(t, s) ==
  LET d == disp[t]
  IN /\ d.pc = "batch" /\ d.impl = "sched"
     /\ s \in CurrentBatch(d) /\ d.att[s] = "none"
     /\ deliveries' = deliveries \cup {QueuedRow(d, s)}
     /\ disp' = [disp EXCEPT ![t].att[s] = "inflight", ![t].keys[s] = vapidDetails]
     /\ UNCHANGED <<proc, calc, now, campaigns, sites, subscribers, segment_members,
                    campaign_stats, vapidDetails, dispatches, poll, jobs,
                    scheduledJobs, cancelLog>>

\* webpush.sendNotification settles (either implementation).
SendResolve(t, s, o) ==
  /\ disp[t].pc = "batch" /\ disp[t].att[s] = "inflight"
  /\ disp' = [disp EXCEPT ![t].att[s] = o]
  /\ UNCHANGED <<proc, calc, now, store, vapidDetails, dispatches, poll, jobs, scheduledJobs,
                 cancelLog>>

\* Mutant: no catch around the attempt, a rejected send rejects sendCampaign.
AttemptUpdate_NoCatch(t, s) ==
  LET d == disp[t]
  IN /\ d.pc = "batch" /\ d.impl = "sched" /\ d.att[s] \in Outcomes
     /\ IF d.att[s] = "ok"
          THEN /\ deliveries' = MarkSent(d, s)
               /\ disp' = [disp EXCEPT ![t].att[s] = "done",
                                       ![t].successCount = @ + 1]
          ELSE /\ UNCHANGED deliveries
               /\ disp' = [disp EXCEPT ![t].pc = "failed", ![t].err = "Transport"]
     /\ UNCHANGED <<proc, calc, now, campaigns, sites, subscribers, segment_members,
                    campaign_stats, vapidDetails, dispatches, poll, jobs,
                    scheduledJobs, cancelLog>>

\* After the send: the UPDATE to 'sent' (try) or to 'failed' (catch) returns.
AttemptUpdate(t, s) ==
  LET d == disp[t]
  IN /\ d.pc = "batch" /\ d.impl = "sched" /\ d.att[s] \in Outcomes
     /\ IF d.att[s] = "ok"
          THEN /\ deliveries' = MarkSent(d, s)
               /\ disp' = [disp EXCEPT ![t].att[s] = "done",
                                       ![t].successCount = @ + 1]
        ELSE IF d.att[s] = "gone"
          THEN /\ deliveries' = MarkFailed(d, s, d.att[s])
               /\ disp' = [disp EXCEPT ![t].att[s] = "deact"]
        ELSE /\ deliveries' = MarkFailed(d, s, d.att[s])
             /\ disp' = [disp EXCEPT ![t].att[s] = "done",
                                     ![t].failureCount = @ + 1]
     /\ UNCHANGED <<proc, calc, now, campaigns, sites, subscribers, segment_members,
                    campaign_stats, vapidDetails, dispatches, poll, jobs,
                    scheduledJobs, cancelLog>>

\* error.statusCode === 410: UPDATE subscribers SET is_active = false
AttemptDeactivate(t, s) ==
  LET d == disp[t]
  IN /\ d.pc = "batch" /\ d.impl = "sched" /\ d.att[s] = "deact"
     /\ subscribers' = [subscribers EXCEPT ![s].is_active = FALSE]
     /\ disp' = [disp EXCEPT ![t].att[s] = "done", ![t].failureCount = @ + 1]
     /\ UNCHANGED <<proc, calc, now, campaigns, sites, segment_members, deliveries,
                    campaign_stats, vapidDetails, dispatches, poll, jobs,
                    scheduledJobs, cancelLog>>

\* Promise.all resolves: the next batch is mapped, or the loop ends and the
\* UPDATE of the campaign status is issued.
BatchAdvance(t) ==
  LET d == disp[t]
  IN /\ d.pc = "batch" /\ d.impl = "sched"
     /\ BatchResolved(d)
     /\ IF d.i + batchSize < Len(d.subs)
          THEN disp' = [disp EXCEPT ![t].i = @ + batchSize]
          ELSE disp' = [disp EXCEPT ![t].pc = "final"]
     /\ UNCHANGED <<proc, calc, now, store, vapidDetails, dispatches, poll, jobs, scheduledJobs,
                    cancelLog>>

\* UPDATE campaigns SET status = finalStatus WHERE id = campaignId
SendFinalize(t) ==
  LET d == disp[t]
  IN /\ d.pc = "final" /\ d.impl = "sched"
     /\ campaigns' = [campaigns EXCEPT ![d.campaignId].status =
                        IF campaigns[d.campaignId].present
                          THEN FinalStatus(d.campaign) ELSE @]
     /\ disp' = [disp EXCEPT ![t].pc = "stats"]
     /\ UNCHANGED <<proc, calc, now, sites, subscribers, segment_members, deliveries,
                    campaign_stats, vapidDetails, dispatches, poll, jobs,
                    scheduledJobs, cancelLog>>

\* await this.updateCampaignStats(campaignId); sendCampaign returns.
SendStats(t) ==
  LET d == disp[t]
  IN /\ d.pc = "stats" /\ d.impl = "sched"
     /\ campaign_stats' = UpdateCampaignStats(d.campaignId)
     /\ disp' = [disp EXCEPT ![t].pc = "done"]
     /\ UNCHANGED <<proc, calc, now, campaigns, sites, subscribers, segment_members, deliveries,
                    vapidDetails, dispatches, poll, jobs, scheduledJobs, cancelLog>>


\* ------------------------------------- sendCampaignNotifications (server.js)
\* The call sendCampaignNotifications(campaign): the subscriber query is issued.
CallSendNotifications(t, row) ==
  /\ Len(dispatches) < MaxDispatches
  /\ disp[t].pc = "idle"
  /\ disp' = [disp EXCEPT ![t] = [IdleDisp EXCEPT !.pc = "subs", !.impl = "srv",
                                    !.id = Len(dispatches) + 1,
                                    !.campaignId = row.id, !.campaign = row]]
  /\ dispatches' = Append(dispatches,
                          [campaignId |-> row.id, task |-> t, impl |-> "srv", at |-> now])

\* SELECT * FROM subscribers WHERE site_id = $1 AND is_active = true
ActiveSubscribers(campaign) ==
  {s \in Subs : subscribers[s].site_id = campaign.site_id /\ subscribers[s].is_active}

\* INSERT INTO deliveries (.., status, sent_at) VALUES (.., 'sent', CURRENT_TIMESTAMP)
SentRow(d, s) ==
  [id |-> <<d.id, s>>, campaign_id |-> d.campaignId, subscriber_id |-> s,
   status |-> "sent", sent_at |-> now, error_message |-> NULL]

\* INSERT INTO deliveries (.., status, error_message) VALUES (.., 'failed', $4)
FailedRow(d, s, msg) ==
  [id |-> <<d.id, s>>, campaign_id |-> d.campaignId, subscriber_id |-> s,
   status |-> "failed", sent_at |-> NoTime, error_message |-> msg]

\* The web-push module global of the server.js process: set once at startup
\* from VAPID_PUBLIC_KEY / VAPID_PRIVATE_KEY of the environment, or never.
ServerVapid == "env"

\* The subscriber query returns; the loop over the rows begins.
NotifyLoadSubscribers(t) ==
  LET d == disp[t]
  IN /\ d.pc = "subs" /\ d.impl = "srv"
     /\ disp' = [disp EXCEPT ![t].pc = "batch", ![t].i = 0,
                             ![t].subs = SortedSeq(ActiveSubscribers(d.campaign))]
     /\ UNCHANGED <<proc, calc, now, store, vapidDetails, dispatches, poll, jobs, scheduledJobs,
                    cancelLog>>

\* The subscriber query rejects (a store error): the outer catch logs and
\* rethrows, so sendCampaignNotifications throws.
NotifyStoreError(t) ==
  /\ disp[t].pc = "subs" /\ disp[t].impl = "srv"
  /\ disp' = [disp EXCEPT ![t].pc = "failed", ![t].err = "StoreError"]
  /\ UNCHANGED <<proc, calc, now, store, vapidDetails, dispatches, poll, jobs, scheduledJobs,
                 cancelLog>>

\* for (const subscriber of rows): await webpush.sendNotification(...)
NotifySend(t) ==
  LET d == disp[t]
  IN /\ d.pc = "batch" /\ d.impl = "srv"
     /\ d.i < Len(d.subs) /\ d.att[d.subs[d.i + 1]] = "none"
     /\ disp' = [disp EXCEPT ![t].att[d.subs[d.i + 1]] = "inflight",
                             ![t].keys[d.subs[d.i + 1]] = ServerVapid]
     /\ UNCHANGED <<proc, calc, now, store, vapidDetails, dispatches, poll, jobs, scheduledJobs,
                    cancelLog>>

\* The INSERT of the 'sent' row (try) or of the 'failed' row (catch) returns.
NotifyRecord(t) ==
  LET d == disp[t]
      s == d.subs[d.i + 1]
  IN /\ d.pc = "batch" /\ d.impl = "srv"
     /\ d.i < Len(d.subs) /\ d.att[s] \in Outcomes
     /\ IF d.att[s] = "ok"
          THEN /\ deliveries' = deliveries \cup {SentRow(d, s)}
               /\ disp' = [disp EXCEPT ![t].att[s] = "done", ![t].i = @ + 1,
                                       ![t].successCount = @ + 1]
          ELSE /\ deliveries' = deliveries \cup {FailedRow(d, s, d.att[s])}
               /\ disp' = [disp EXCEPT ![t].att[s] = "done", ![t].i = @ + 1,
                                       ![t].failureCount = @ + 1]
     /\ UNCHANGED <<proc, calc, now, campaigns, sites, subscribers, segment_members,
                    campaign_stats, vapidDetails, dispatches, poll, jobs,
                    scheduledJobs, cancelLog>>

\* After the loop: UPDATE campaigns SET status = 'sent' unless recurring; return.
NotifyFinalize(t) ==
  LET d == disp[t]
  IN /\ d.pc = "batch" /\ d.impl = "srv"
     /\ d.i = Len(d.subs)
     /\ campaigns' = [campaigns EXCEPT ![d.campaignId].status =
                        IF d.campaign.delivery_type # "recurring"
                             /\ campaigns[d.campaignId].present
                          THEN "sent" ELSE @]
     /\ disp' = [disp EXCEPT ![t].pc = "done"]
     /\ UNCHANGED <<proc, calc, now, sites, subscribers, segment_members, deliveries,
                    campaign_stats, vapidDetails, dispatches, poll, jobs,
                    scheduledJobs, cancelLog>>

\* POST /api/campaigns/:id/send: the campaign is read and, when found, sent.
ManualSend(c) ==
  /\ campaigns[c].present
  /\ CallSendNotifications("manual", campaigns[c])
  /\ UNCHANGED <<proc, calc, now, store, vapidDetails, poll, jobs, scheduledJobs, cancelLog>>

\* res.json({ message: 'Campaign sent', results })
ManualRespond ==
  /\ disp["manual"].pc = "done"
  /\ disp' = [disp EXCEPT !["manual"] = IdleDisp]
  /\ UNCHANGED <<proc, calc, now, store, vapidDetails, dispatches, poll, jobs, scheduledJobs,
                 cancelLog>>


\* ------------------------------------------- one-shot timers (scheduler.js)
\* The cron expression `${minute} ${hour} ${day} ${month} *` of the target date
\* matches the clock.
CronMatches(at, t) == t = at

FreeJob == CHOOSE j \in Jobs : ~jobs[j].used

\* scheduleAt(campaignId, scheduledDate).  this.scheduledJobs.set(campaignId,
\* job) overwrites the map entry; the job that was there is not stopped.  The
\* field superseded records that a job lost its map entry before it fired.
ScheduleAt(c, ts) ==
  /\ IF ts <= now
       THEN /\ CallSendCampaign("imm", c)
            /\ UNCHANGED <<jobs, scheduledJobs>>
       ELSE /\ \E j \in Jobs : ~jobs[j].used
            /\ jobs' = [j \in Jobs |->
                          IF j = FreeJob
                            THEN [used |-> TRUE, campaignId |-> c, at |-> ts,
                                  stopped |-> FALSE, fired |-> FALSE,
                                  superseded |-> FALSE]
                            ELSE IF j = scheduledJobs[c] /\ ~jobs[j].fired
                                   THEN [jobs[j] EXCEPT !.superseded = TRUE]
                                   ELSE jobs[j]]
            /\ scheduledJobs' = [scheduledJobs EXCEPT ![c] = FreeJob]
            /\ UNCHANGED <<disp, dispatches>>
  /\ UNCHANGED <<proc, calc, now, store, vapidDetails, poll, cancelLog>>

\* The cron job's callback starts: await this.sendCampaign(campaignId)
JobFire(j) ==
  /\ jobs[j].used /\ ~jobs[j].stopped /\ ~jobs[j].fired
  /\ CronMatches(jobs[j].at, now)
  /\ CallSendCampaign(j, jobs[j].campaignId)
  /\ jobs' = [jobs EXCEPT ![j].fired = TRUE]
  /\ UNCHANGED <<proc, calc, now, store, vapidDetails, poll, scheduledJobs, cancelLog>>

\* sendCampaign returned: job.stop(); this.scheduledJobs.delete(campaignId).
\* When sendCampaign threw, the callback ends at the await and neither runs.
JobFinish(j) ==
  /\ disp[j].pc \in {"done", "failed"}
  /\ IF disp[j].pc = "done"
       THEN /\ jobs' = [jobs EXCEPT ![j].stopped = TRUE]
            /\ scheduledJobs' = [scheduledJobs EXCEPT ![jobs[j].campaignId] = NULL]
       ELSE UNCHANGED <<jobs, scheduledJobs>>
  /\ disp' = [disp EXCEPT ![j] = IdleDisp]
  /\ UNCHANGED <<proc, calc, now, store, vapidDetails, dispatches, poll, cancelLog>>

\* What a cancel call saw: whether a dispatch of the campaign had been started,
\* the campaign's stored status, whether the campaign's job in scheduledJobs
\* had fired, how many dispatches had been started and which cron jobs had
\* been created.
CancelEntry(api, c, result) ==
  [api |-> api, campaignId |-> c, result |-> result,
   started |-> \E k \in DOMAIN dispatches : dispatches[k].campaignId = c,
   status |-> campaigns[c].status,
   fired |-> IF scheduledJobs[c] = NULL THEN FALSE ELSE jobs[scheduledJobs[c]].fired,
   dispatchesBefore |-> Len(dispatches),
   jobsBefore |-> {j \in Jobs : jobs[j].used}]

\* Cancel calls recorded per run.
MaxCancels == 1

\* cancelScheduled(campaignId)
CancelScheduled(c) ==
  /\ Cardinality(cancelLog) < MaxCancels
  /\ IF scheduledJobs[c] # NULL
       THEN /\ jobs' = [jobs EXCEPT ![scheduledJobs[c]].stopped = TRUE]
            /\ scheduledJobs' = [scheduledJobs EXCEPT ![c] = NULL]
            /\ cancelLog' = cancelLog \cup {CancelEntry("cancelScheduled", c, TRUE)}
       ELSE /\ UNCHANGED <<jobs, scheduledJobs>>
            /\ cancelLog' = cancelLog \cup {CancelEntry("cancelScheduled", c, FALSE)}
  /\ UNCHANGED <<proc, calc, now, store, vapidDetails, disp, dispatches, poll>>

\* DELETE /api/campaigns/scheduled/:id
\*   UPDATE campaigns SET status = 'cancelled' WHERE id = $1 AND status = 'draft'
CancelEndpoint(c) ==
  /\ Cardinality(cancelLog) < MaxCancels
  /\ IF campaigns[c].present /\ campaigns[c].status = "draft"
       THEN /\ campaigns' = [campaigns EXCEPT ![c].status = "cancelled"]
            /\ cancelLog' = cancelLog \cup {CancelEntry("DELETE", c, TRUE)}
       ELSE /\ UNCHANGED campaigns
            /\ cancelLog' = cancelLog \cup {CancelEntry("DELETE", c, FALSE)}
  /\ UNCHANGED <<proc, calc, now, sites, subscribers, segment_members, deliveries,
                 campaign_stats, vapidDetails, disp, dispatches, poll, jobs,
                 scheduledJobs>>

\* ------------------------------------------------------- stats and clicks
\* Calls of updateCampaignStats recorded per run.
MaxRefresh == 2

\* A call of updateCampaignStats(campaignId) on its own.  The record of the
\* call keeps what it read: the delivery rows and the current date.
Refresh(c) ==
  /\ calc.op \in {NULL, "refresh"}
  /\ calc.op = "refresh" => calc.n < MaxRefresh
  /\ campaign_stats' = UpdateCampaignStats(c)
  /\ calc' = [op |-> "refresh", n |-> IF calc.op = "refresh" THEN calc.n + 1 ELSE 1,
               campaignId |-> c, deliveries |-> deliveries, date |-> DateOf(now)]
  /\ UNCHANGED <<proc, now, campaigns, sites, subscribers, segment_members, deliveries,
                 vapidDetails, disp, dispatches, poll, jobs, scheduledJobs, cancelLog>>

\* The click-tracking callback: the delivery of a notification that was sent
\* is recorded as clicked.
Click(r) ==
  /\ r \in deliveries /\ r.status = "sent"
  /\ deliveries' = (deliveries \ {r}) \cup {[r EXCEPT !.status = "clicked"]}
  /\ UNCHANGED <<proc, calc, now, campaigns, sites, subscribers, segment_members,
                 campaign_stats, vapidDetails, disp, dispatches, poll, jobs,
                 scheduledJobs, cancelLog>>

\* getStatus(): the call returns isRunning, the size of scheduledJobs and its
\* keys; the record of the call keeps what it returned.
GetStatus ==
  /\ calc.op = NULL
  /\ calc' = [op |-> "getStatus",
               result |-> [isRunning |-> proc.isRunning,
                           scheduledJobsCount |->
                             Cardinality({c \in Campaigns : scheduledJobs[c] # NULL}),
                           scheduledJobs |->
                             {c \in Campaigns : scheduledJobs[c] # NULL}]]
  /\ UNCHANGED <<proc, now, store, vapidDetails, disp, dispatches, poll, jobs,
                 scheduledJobs, cancelLog>>

\* -------------------------------------------------- stop() and the signals
\* What stop() leaves of the cron jobs: the jobs in scheduledJobs are stopped
\* and the map is cleared.
StoppedJobs ==
  [j \in Jobs |->
     IF \E c \in Campaigns : scheduledJobs[c] = j
       THEN [jobs[j] EXCEPT !.stopped = TRUE] ELSE jobs[j]]

\* stop(): mainTask and recurringTask are stopped, so no further tick starts.
Stop ==
  /\ jobs' = StoppedJobs
  /\ scheduledJobs' = [c \in Campaigns |-> NULL]
  /\ proc' = [proc EXCEPT !.isRunning = FALSE]
  /\ UNCHANGED <<calc, now, store, vapidDetails, disp, dispatches, poll, cancelLog>>

\* process.on('SIGTERM' / 'SIGINT'): schedulerService.stop(); process.exit(0)
Signal ==
  /\ jobs' = StoppedJobs
  /\ scheduledJobs' = [c \in Campaigns |-> NULL]
  /\ proc' = [isRunning |-> FALSE, exited |-> TRUE]
  /\ UNCHANGED <<calc, now, store, vapidDetails, disp, dispatches, poll, cancelLog>>

\* ------------------------------------ checkScheduledCampaigns (scheduler.js)
\* LIMIT 50
PollLimit == 50

\* The sequences listing every element of S once.
Orderings(S) ==
  {q \in [1..Cardinality(S) -> S] : \A i, j \in DOMAIN q : i # j => q[i] # q[j]}

\* WHERE status = 'scheduled' AND delivery_type = 'scheduled' AND scheduled_at <= NOW()
SchedDue ==
  {c \in Campaigns :
     /\ campaigns[c].present
     /\ campaigns[c].status = "scheduled"
     /\ campaigns[c].delivery_type = "scheduled"
     /\ campaigns[c].scheduled_at <= now}

\* ORDER BY scheduled_at ASC LIMIT 50 (rows with equal scheduled_at in any order)
SchedSelection ==
  {SubSeq(q, 1, Min(Len(q), PollLimit)) :
     q \in {o \in Orderings(SchedDue) :
              \A i, j \in DOMAIN o :
                 i < j => campaigns[o[i]].scheduled_at <= campaigns[o[j]].scheduled_at}}

\* A tick of the poll (or the call in start()): the SELECT returns.
PollSelect(p) ==
  /\ poll[p].pc = "idle"
  /\ \E q \in SchedSelection : poll' = [poll EXCEPT ![p] = [pc |-> "loop", queue |-> q]]
  /\ UNCHANGED <<proc, calc, now, store, vapidDetails, disp, dispatches, jobs, scheduledJobs,
                 cancelLog>>

\* UPDATE campaigns SET status = 'sending' WHERE id = $1
ClaimWrite(c) == [campaigns EXCEPT ![c].status = "sending"]

\* Loop body: the status UPDATE returns and sendCampaign is called.
PollClaim(p) ==
  /\ poll[p].pc = "loop" /\ poll[p].queue # <<>>
  /\ campaigns' = ClaimWrite(Head(poll[p].queue))
  /\ CallSendCampaign(p, Head(poll[p].queue))
  /\ poll' = [poll EXCEPT ![p].pc = "sending"]
  /\ UNCHANGED <<proc, calc, now, sites, subscribers, segment_members, deliveries,
                 campaign_stats, vapidDetails, jobs, scheduledJobs, cancelLog>>

\* Loop body: the status UPDATE rejects (a store error) inside the try, so
\* sendCampaign is not called; the catch logs and its UPDATE writes status =
\* 'failed'; the loop goes on with the next campaign.
PollClaimFails(p) ==
  /\ poll[p].pc = "loop" /\ poll[p].queue # <<>>
  /\ campaigns' = [campaigns EXCEPT ![Head(poll[p].queue)].status = "failed"]
  /\ poll' = [poll EXCEPT ![p].queue = Tail(@)]
  /\ UNCHANGED <<proc, calc, now, sites, subscribers, segment_members, deliveries,
                 campaign_stats, vapidDetails, disp, dispatches, jobs, scheduledJobs,
                 cancelLog>>

\* sendCampaign returned, or it threw and the catch writes status = 'failed'.
PollAfterSend(p) ==
  /\ poll[p].pc = "sending" /\ disp[p].pc \in {"done", "failed"}
  /\ campaigns' = [campaigns EXCEPT ![Head(poll[p].queue)].status =
                     IF disp[p].pc = "failed" THEN "failed" ELSE @]
  /\ poll' = [poll EXCEPT ![p].pc = "loop", ![p].queue = Tail(@)]
  /\ disp' = [disp EXCEPT ![p] = IdleDisp]
  /\ UNCHANGED <<proc, calc, now, sites, subscribers, segment_members, deliveries,
                 campaign_stats, vapidDetails, dispatches, jobs, scheduledJobs,
                 cancelLog>>

\* sendCampaign threw and the UPDATE to 'failed' in the catch rejects (a store
\* error): the error leaves the for loop, the outer catch logs it and the
\* finally releases the client.  The queue keeps the selected campaigns the
\* loop did not reach.
PollCatchWriteFails(p) ==
  /\ poll[p].pc = "sending" /\ disp[p].pc = "failed"
  /\ poll' = [poll EXCEPT ![p].pc = "idle", ![p].queue = Tail(@)]
  /\ disp' = [disp EXCEPT ![p] = IdleDisp]
  /\ UNCHANGED <<proc, calc, now, store, vapidDetails, dispatches, jobs, scheduledJobs,
                 cancelLog>>

\* The loop is over: client.release()
PollEnd(p) ==
  /\ poll[p].pc = "loop" /\ poll[p].queue = <<>>
  /\ poll' = [poll EXCEPT ![p].pc = "idle"]
  /\ UNCHANGED <<proc, calc, now, store, vapidDetails, disp, dispatches, jobs, scheduledJobs,
                 cancelLog>>


\* ------------------------------------------------ JavaScript Date (local time)
\* A Date is [day, hour, minute, second]: day counts the days since 2023-01-01
\* (a Sunday), the rest is the local time of day.  Milliseconds are left out:
\* the calculator sets them to 0 and compares whole instants.  The local zone
\* has no daylight-saving transitions.
Years == 2023..2025

IsLeap(y) == (y % 4 = 0 /\ y % 100 # 0) \/ y % 400 = 0

\* new Date(year, month + 1, 0).getDate(), month in 0..11
DaysInMonth(y, m) ==
  CASE m \in {0, 2, 4, 6, 7, 9, 11} -> 31
    [] m \in {3, 5, 8, 10} -> 30
    [] OTHER -> IF IsLeap(y) THEN 29 ELSE 28

RECURSIVE DaysBeforeYear(_)
DaysBeforeYear(y) ==
  IF y <= 2023 THEN 0
  ELSE DaysBeforeYear(y - 1) + (IF IsLeap(y - 1) THEN 366 ELSE 365)

RECURSIVE DaysBeforeMonth(_, _)
DaysBeforeMonth(y, m) ==
  IF m = 0 THEN 0 ELSE DaysBeforeMonth(y, m - 1) + DaysInMonth(y, m - 1)

\* The day of year y, month m, day of month d, where m and d may lie beyond the
\* year and the month: the Date setters carry the excess over.
DayNumber(y, m, d) ==
  DaysBeforeYear(y + m \div 12) + DaysBeforeMonth(y + m \div 12, m % 12) + d - 1

getFullYear(t) ==
  CHOOSE y \in Years : DaysBeforeYear(y) <= t.day /\ t.day < DaysBeforeYear(y + 1)

getMonth(t) ==
  CHOOSE m \in 0..11 :
    /\ DayNumber(getFullYear(t), m, 1) <= t.day
    /\ t.day < DayNumber(getFullYear(t), m, 1) + DaysInMonth(getFullYear(t), m)

getDate(t) == t.day - DayNumber(getFullYear(t), getMonth(t), 1) + 1

\* 0 = Sunday
getDay(t) == t.day % 7

setDate_NoCarry(t, d) ==
  [t EXCEPT !.day = DayNumber(getFullYear(t), getMonth(t),
                              Min(d, DaysInMonth(getFullYear(t), getMonth(t))))]

setDate(t, d) == [t EXCEPT !.day = DayNumber(getFullYear(t), getMonth(t), d)]

setMonth(t, m) == [t EXCEPT !.day = DayNumber(getFullYear(t), m, getDate(t))]

\* getTime(), in seconds
getTime(t) == ((t.day * 24 + t.hour) * 60 + t.minute) * 60 + t.second

\* A sub-field of a rule that is absent, or that parseInt does not read as a
\* number.
Missing == 0 - 1

\* parseInt(v) || dflt
ParseIntOr(v, dflt) == IF v = Missing \/ v = 0 THEN dflt ELSE v

\* A recurring_schedule value; server.js reads hour, minute, dayOfWeek and
\* dayOfMonth, scheduler.js reads hour, minute, day_of_week, day, the interval
\* fields and last_sent.
Schedule(frequency, hour, minute) ==
  [frequency |-> frequency, hour |-> hour, minute |-> minute,
   dayOfWeek |-> Missing, dayOfMonth |-> Missing,
   day_of_week |-> Missing, day |-> Missing,
   interval_value |-> Missing, interval_unit |-> NULL, last_sent |-> NoTime]

\* The instant the wall clock value t stands for: the DayLength instants of a
\* day are its first minutes.
ToDate(t) ==
  [day |-> t \div DayLength, hour |-> 0, minute |-> t % DayLength, second |-> 0]

\* The wall clock value of an instant (of the first DayLength minutes of a day).
FromDate(d) == d.day * DayLength + d.minute

\* --------------------------------------- executeScheduledCampaigns (server.js)
NotAfter_Strict(nextDate, baseDate) == getTime(nextDate) < getTime(baseDate)

\* nextDate <= baseDate
NotAfter(nextDate, baseDate) == getTime(nextDate) <= getTime(baseDate)

\* calculateNextScheduledTime(recurringSchedule, lastExecuted); the callers
\* pass lastExecuted.
calculateNextScheduledTime(recurringSchedule, lastExecuted) ==
  LET baseDate == lastExecuted
      nextDate == [baseDate EXCEPT !.hour = ParseIntOr(recurringSchedule.hour, 0),
                                   !.minute = ParseIntOr(recurringSchedule.minute, 0),
                                   !.second = 0]
      passed == NotAfter(nextDate, baseDate)
  IN CASE recurringSchedule.frequency = "daily" ->
            IF passed THEN setDate(nextDate, getDate(nextDate) + 1) ELSE nextDate
       [] recurringSchedule.frequency = "weekly" ->
            LET targetDay == ParseIntOr(recurringSchedule.dayOfWeek, 0)
                currentDay == getDay(nextDate)
                daysUntilNext ==
                  IF targetDay - currentDay < 0 \/ (targetDay - currentDay = 0 /\ passed)
                    THEN targetDay - currentDay + 7
                    ELSE targetDay - currentDay
            IN setDate(nextDate, getDate(nextDate) + daysUntilNext)
       [] recurringSchedule.frequency = "monthly" ->
            LET targetDate == ParseIntOr(recurringSchedule.dayOfMonth, 1)
                onTarget == setDate(nextDate, targetDate)
                moved == IF NotAfter(onTarget, baseDate)
                           THEN setMonth(onTarget, getMonth(onTarget) + 1)
                           ELSE onTarget
                daysInMonth == DaysInMonth(getFullYear(moved), getMonth(moved))
            IN setDate(moved, Min(targetDate, daysInMonth))
       [] OTHER -> nextDate

\* WHERE delivery_type IN ('scheduled', 'recurring') AND status = 'draft'
\*   AND scheduled_at <= $1
ServerDue ==
  {campaigns[c] : c \in
     {c \in Campaigns :
        /\ campaigns[c].present
        /\ campaigns[c].delivery_type \in {"scheduled", "recurring"}
        /\ campaigns[c].status = "draft"
        /\ campaigns[c].scheduled_at <= now}}

\* A tick of setInterval (or the call in startScheduler): the SELECT returns.
XPollSelect(x) ==
  /\ poll[x].pc = "idle"
  /\ \E q \in Orderings(ServerDue) :
        poll' = [poll EXCEPT ![x] = [pc |-> "loop", queue |-> q]]
  /\ UNCHANGED <<proc, calc, now, store, vapidDetails, disp, dispatches, jobs, scheduledJobs,
                 cancelLog>>

\* Loop body: sendCampaignNotifications(campaign) is called with the row read.
XPollSend(x) ==
  /\ poll[x].pc = "loop" /\ poll[x].queue # <<>>
  /\ CallSendNotifications(x, Head(poll[x].queue))
  /\ poll' = [poll EXCEPT ![x].pc = "sending"]
  /\ UNCHANGED <<proc, calc, now, store, vapidDetails, jobs, scheduledJobs, cancelLog>>

\* The send returned: a recurring campaign gets its next scheduled_at.
XPollAfterSend(x) ==
  LET row == Head(poll[x].queue)
  IN /\ poll[x].pc = "sending" /\ disp[x].pc \in {"done", "failed"}
     /\ campaigns' =
          IF /\ disp[x].pc = "done"
             /\ row.delivery_type = "recurring"
             /\ row.recurring_schedule.frequency # NULL
            THEN [campaigns EXCEPT ![row.id].scheduled_at =
                    FromDate(calculateNextScheduledTime(row.recurring_schedule,
                                                        ToDate(row.scheduled_at)))]
            ELSE campaigns
     /\ poll' = [poll EXCEPT ![x].pc = "loop", ![x].queue = Tail(@)]
     /\ disp' = [disp EXCEPT ![x] = IdleDisp]
     /\ UNCHANGED <<proc, calc, now, sites, subscribers, segment_members, deliveries,
                    campaign_stats, vapidDetails, dispatches, jobs, scheduledJobs,
                    cancelLog>>

XPollEnd(x) ==
  /\ poll[x].pc = "loop" /\ poll[x].queue = <<>>
  /\ poll' = [poll EXCEPT ![x].pc = "idle"]
  /\ UNCHANGED <<proc, calc, now, store, vapidDetails, disp, dispatches, jobs, scheduledJobs,
                 cancelLog>>

\* ------------------------------------- checkRecurringCampaigns (scheduler.js)
\* No last_sent has been recorded.
NoDate == [day |-> Missing, hour |-> 0, minute |-> 0, second |-> 0]

\* getIntervalMilliseconds(value, unit), in the seconds of getTime:
\* value * (multipliers[unit] || multipliers.hours)
getIntervalMilliseconds(value, unit) ==
  value * (CASE unit = "minutes" -> 60
             [] unit = "days" -> 24 * 60 * 60
             [] OTHER -> 60 * 60)

\* shouldSendNow(schedule) at the instant current (const now = new Date());
\* schedule.last_sent is a Date, or NoDate when the field is absent.
shouldSendNow(schedule, current) ==
  LET lastSent == schedule.last_sent
      targetHour == ParseIntOr(schedule.hour, 10)
      targetMinute == ParseIntOr(schedule.minute, 0)
      atTime == current.hour = targetHour /\ current.minute = targetMinute
  IN CASE schedule.frequency = "daily" ->
            atTime /\ (lastSent = NoDate \/ lastSent.day # current.day)
       [] schedule.frequency = "weekly" ->
            LET targetDayOfWeek == ParseIntOr(schedule.day_of_week, 1)
                weekStart == [day |-> current.day - getDay(current), hour |-> 0,
                              minute |-> 0, second |-> 0]
            IN /\ getDay(current) = targetDayOfWeek /\ atTime
               /\ (lastSent = NoDate \/ getTime(lastSent) < getTime(weekStart))
       [] schedule.frequency = "monthly" ->
            LET targetDay == ParseIntOr(schedule.day, 1)
            IN /\ getDate(current) = targetDay /\ atTime
               /\ \/ lastSent = NoDate
                  \/ getMonth(lastSent) # getMonth(current)
                  \/ getFullYear(lastSent) # getFullYear(current)
       [] schedule.frequency = "interval" ->
            \/ lastSent = NoDate
            \/ getTime(current) - getTime(lastSent)
                  >= getIntervalMilliseconds(schedule.interval_value,
                                             schedule.interval_unit)
       [] OTHER -> FALSE

\* The recurring_schedule of a row as the check reads it: last_sent as a Date.
ScheduleRead(rule) ==
  [rule EXCEPT !.last_sent = IF @ = NoTime THEN NoDate ELSE ToDate(@)]

\* WHERE status = 'active' AND delivery_type = 'recurring'
\*   AND recurring_schedule IS NOT NULL
RecurringRows ==
  {campaigns[c] : c \in
     {c \in Campaigns :
        /\ campaigns[c].present
        /\ campaigns[c].status = "active"
        /\ campaigns[c].delivery_type = "recurring"
        /\ campaigns[c].recurring_schedule.frequency # NULL}}

\* A tick of the five-minute check: the SELECT returns.
RPollSelect(p) ==
  /\ poll[p].pc = "idle"
  /\ \E q \in Orderings(RecurringRows) :
        poll' = [poll EXCEPT ![p] = [pc |-> "loop", queue |-> q]]
  /\ UNCHANGED <<proc, calc, now, store, vapidDetails, disp, dispatches, jobs,
                 scheduledJobs, cancelLog>>

\* Loop body: shouldSendNow(schedule) is false, nothing is done.
RPollSkip(p) ==
  /\ poll[p].pc = "loop" /\ poll[p].queue # <<>>
  /\ ~shouldSendNow(ScheduleRead(Head(poll[p].queue).recurring_schedule), ToDate(now))
  /\ poll' = [poll EXCEPT ![p].queue = Tail(@)]
  /\ UNCHANGED <<proc, calc, now, store, vapidDetails, disp, dispatches, jobs,
                 scheduledJobs, cancelLog>>

\* Loop body: shouldSendNow(schedule) is true, sendCampaign is called.
RPollSend(p) ==
  /\ poll[p].pc = "loop" /\ poll[p].queue # <<>>
  /\ shouldSendNow(ScheduleRead(Head(poll[p].queue).recurring_schedule), ToDate(now))
  /\ CallSendCampaign(p, Head(poll[p].queue).id)
  /\ poll' = [poll EXCEPT ![p].pc = "sending"]
  /\ UNCHANGED <<proc, calc, now, store, vapidDetails, jobs, scheduledJobs, cancelLog>>

\* sendCampaign returned: last_sent is set to NOW(); or it threw and the catch
\* logs.
RPollAfterSend(p) ==
  /\ poll[p].pc = "sending" /\ disp[p].pc \in {"done", "failed"}
  /\ campaigns' =
       IF disp[p].pc = "done"
         THEN [campaigns EXCEPT
                 ![Head(poll[p].queue).id].recurring_schedule.last_sent = now]
         ELSE campaigns
  /\ poll' = [poll EXCEPT ![p].pc = "loop", ![p].queue = Tail(@)]
  /\ disp' = [disp EXCEPT ![p] = IdleDisp]
  /\ UNCHANGED <<proc, calc, now, sites, subscribers, segment_members, deliveries,
                 campaign_stats, vapidDetails, dispatches, jobs, scheduledJobs,
                 cancelLog>>

\* The loop is over: client.release()
RPollEnd(p) ==
  /\ poll[p].pc = "loop" /\ poll[p].queue = <<>>
  /\ poll' = [poll EXCEPT ![p].pc = "idle"]
  /\ UNCHANGED <<proc, calc, now, store, vapidDetails, disp, dispatches, jobs,
                 scheduledJobs, cancelLog>>

\* ------------------------------------------------------------------ clock
Tick ==
  /\ now < MaxTime
  /\ now' = now + 1
  /\ UNCHANGED <<proc, calc, store, vapidDetails, disp, dispatches, poll, jobs, scheduledJobs,
                 cancelLog>>

\* ------------------------------------------------------------ initial states
NoRule == Schedule(NULL, Missing, Missing)

\* No call of the calculator has been made.
NoCalc == [op |-> NULL]

NoJob == [used |-> FALSE, campaignId |-> NULL, at |-> 0, stopped |-> FALSE,
          fired |-> FALSE, superseded |-> FALSE]

\* The process state after construction and start(): nothing armed, no
\* invocation running.
InitRuntime ==
  /\ now = 0
  /\ deliveries = {}
  /\ campaign_stats = {}
  /\ vapidDetails = NULL
  /\ disp = [t \in Tasks |-> IdleDisp]
  /\ dispatches = <<>>
  /\ poll = [p \in SchedPolls \cup ServerPolls \cup RecurPolls |->
               [pc |-> "idle", queue |-> <<>>]]
  /\ jobs = [j \in Jobs |-> NoJob]
  /\ scheduledJobs = [c \in Campaigns |-> NULL]
  /\ cancelLog = {}
  /\ proc = [isRunning |-> TRUE, exited |-> FALSE]

InitProcess == InitRuntime /\ calc = NoCalc

\* The status a campaign waits in: 'scheduled' / 'active' for scheduler.js.
PendingStatus(dtype) == IF dtype = "recurring" THEN "active" ELSE "scheduled"

\* Stores for one dispatch: campaign c1 of site A, found or not, with valid
\* keys or not, one-shot or recurring, with or without a segment; subscribers
\* active or not, of site A or B.
InitDispatch ==
  /\ InitProcess
  /\ \E present \in BOOLEAN, sitecase \in {"ok", "badkeys", "nosite"},
        dtype \in {"scheduled", "recurring"}, seg \in {NULL, "g1"},
        inactive \in {{}, {1}}, ofB \in {{}, {NumSubs}} :
       /\ (~present \/ sitecase # "ok") =>
             (dtype = "scheduled" /\ seg = NULL /\ inactive = {} /\ ofB = {})
       /\ (present /\ sitecase # "ok") \/ ~(sitecase = "nosite" /\ ~present)
       /\ campaigns =
            [c \in Campaigns |->
               IF c = "c1"
                 THEN [id |-> c, present |-> present, site_id |-> "A",
                       delivery_type |-> dtype, status |-> PendingStatus(dtype),
                       scheduled_at |-> 0, segment_id |-> seg,
                       recurring_schedule |->
                         IF dtype = "recurring"
                           THEN Schedule("daily", 0, 0) ELSE NoRule]
                 ELSE [id |-> c, present |-> TRUE, site_id |-> "B",
                       delivery_type |-> "scheduled", status |-> "scheduled",
                       scheduled_at |-> 0, segment_id |-> NULL,
                       recurring_schedule |-> NoRule]]
       /\ sites = [x \in Sites |->
                     IF x = "A"
                       THEN [present |-> sitecase # "nosite",
                             vapid_valid |-> sitecase = "ok"]
                       ELSE [present |-> TRUE, vapid_valid |-> TRUE]]
       /\ subscribers = [s \in Subs |->
                           [site_id |-> IF s \in ofB THEN "B" ELSE "A",
                            is_active |-> s \notin inactive]]
       /\ segment_members = [g \in Segments |-> Subs \ {2}]

\* The steps of sendCampaign run by invocation t.
SendStep(t) ==
  \/ SendLoadCampaign(t)
  \/ SendLoadSubscribers(t)
  \/ BatchAdvance(t)
  \/ SendFinalize(t)
  \/ SendStats(t)
  \/ \E s \in Subs :
       \/ AttemptInsert(t, s)
       \/ AttemptUpdate(t, s)
       \/ AttemptDeactivate(t, s)
       \/ \E o \in Outcomes : SendResolve(t, s, o)

\* The steps of sendCampaignNotifications run by invocation t.
NotifyStep(t) ==
  \/ NotifyLoadSubscribers(t)
  \/ NotifySend(t)
  \/ NotifyRecord(t)
  \/ NotifyFinalize(t)
  \/ \E s \in Subs, o \in Outcomes : SendResolve(t, s, o)

\* One dispatch on its own, started by scheduleAt with a past timestamp
\* (sendCampaign) or by the send endpoint (sendCampaignNotifications).
NextDispatch ==
  \/ \E c \in Campaigns : dispatches = <<>> /\ ScheduleAt(c, 0)
  \/ \E c \in Campaigns : dispatches = <<>> /\ ManualSend(c)
  \/ ManualRespond
  \/ SendStep("imm")
  \/ NotifyStep("manual")
  \/ Tick

SpecDispatch == InitDispatch /\ [][NextDispatch]_vars


\* The store of the schedulers: two one-shot campaigns of different sites,
\* waiting in the given pending status ('scheduled' for scheduler.js, 'draft'
\* for server.js), c1 due at at1 and c2 at at2; the subscribers up to lastOfA
\* belong to site A and the others to site B; keysA tells whether site A's
\* VAPID keys are valid.
SchedStore(pending, at1, at2, lastOfA, active, keysA) ==
  /\ campaigns =
       [c \in Campaigns |->
          [id |-> c, present |-> TRUE,
           site_id |-> IF c = "c1" THEN "A" ELSE "B",
           delivery_type |-> "scheduled", status |-> pending,
           scheduled_at |-> IF c = "c1" THEN at1 ELSE at2,
           segment_id |-> NULL, recurring_schedule |-> NoRule]]
  /\ sites = [x \in Sites |-> [present |-> TRUE, vapid_valid |-> x # "A" \/ keysA]]
  /\ subscribers = [s \in Subs |->
                      [site_id |-> IF s <= lastOfA THEN "A" ELSE "B",
                       is_active |-> s \in active]]
  /\ segment_members = [g \in Segments |-> {}]

InitSched ==
  /\ InitProcess
  /\ \E at1 \in {0, 1}, keysA \in BOOLEAN :
       SchedStore("scheduled", at1, 1, 1, {1, 2}, keysA)

InitTimer ==
  /\ InitProcess
  /\ SchedStore("scheduled", 1, 1, 1, {1, 2}, TRUE)

InitServer ==
  /\ InitProcess
  /\ \E at1 \in {0, 1} : SchedStore("draft", at1, 1, 1, {1, 2}, TRUE)

\* Two campaigns due at once, the first with a full batch of subscribers.
InitOverlap ==
  /\ InitProcess
  /\ SchedStore("scheduled", 0, 0, batchSize, 1..(batchSize + 1), TRUE)

\* The scheduler.js process(es): ticks of the one-minute poll, overlapping or
\* of two instances, over the same store.
Next ==
  \/ \E p \in SchedPolls : PollSelect(p) \/ PollClaim(p) \/ PollAfterSend(p) \/ PollEnd(p)
  \/ \E p \in SchedPolls : PollCatchWriteFails(p) \/ PollClaimFails(p)
  \/ \E t \in SchedPolls : SendStep(t)
  \/ Tick

Spec == InitSched /\ [][Next]_vars

\* The steps invocation p of the poll takes when its awaited operation returns
\* normally.
PollProgress(p) ==
  PollClaim(p) \/ PollAfterSend(p) \/ PollEnd(p) \/ SendStep(p)

\* The same process(es) while they keep running: the cron ticks keep firing,
\* and every awaited push send and store operation of an invocation returns,
\* so the invocation's next step is taken; a store operation may still return
\* with an error.
SpecFair ==
  Spec /\ \A p \in SchedPolls : WF_vars(PollSelect(p)) /\ WF_vars(PollProgress(p))

\* Overlapping ticks of the poll within one minute.
NextOverlap ==
  \/ \E p \in SchedPolls : PollSelect(p) \/ PollClaim(p) \/ PollAfterSend(p) \/ PollEnd(p)
  \/ \E t \in SchedPolls : SendStep(t)

SpecOverlap == InitOverlap /\ [][NextOverlap]_vars

\* The campaigns scheduleAt and cancelScheduled are called for.
TimerCampaigns == {"c1"}

\* One scheduler.js process: scheduleAt, its cron jobs and cancelScheduled.
NextTimer ==
  \/ \E c \in TimerCampaigns, ts \in Times : ScheduleAt(c, ts)
  \/ \E j \in Jobs : JobFire(j) \/ JobFinish(j)
  \/ \E c \in TimerCampaigns : CancelScheduled(c)
  \/ \E t \in Jobs \cup {"imm"} : SendStep(t)
  \/ Tick

SpecTimer == InitTimer /\ [][NextTimer]_vars

\* One scheduler.js process: scheduleAt for a campaign whose site has valid
\* keys or not, its cron jobs, and a call of getStatus.
InitStatus ==
  /\ InitProcess
  /\ \E keysA \in BOOLEAN : SchedStore("scheduled", 1, 1, 1, {1, 2}, keysA)

NextStatus ==
  \/ \E c \in TimerCampaigns, ts \in Times : ScheduleAt(c, ts)
  \/ \E j \in Jobs : JobFire(j) \/ JobFinish(j)
  \/ \E t \in Jobs \cup {"imm"} : SendStep(t)
  \/ GetStatus
  \/ Tick

SpecStatus == InitStatus /\ [][NextStatus]_vars

\* A campaign that is both armed by scheduleAt and stored as a one-shot
\* campaign the poll looks for: c1 is due at 1, c2 is not due within the run.
InitCancel ==
  /\ InitProcess
  /\ SchedStore("scheduled", 1, MaxTime + 1, 1, {1, 2}, TRUE)

\* One scheduler.js process: scheduleAt (called for a campaign that has no
\* arm), its cron jobs, cancelScheduled and the one-minute poll.
NextCancel ==
  \/ \E c \in TimerCampaigns, ts \in Times :
       scheduledJobs[c] = NULL /\ ScheduleAt(c, ts)
  \/ \E j \in Jobs : JobFire(j) \/ JobFinish(j)
  \/ \E c \in TimerCampaigns : CancelScheduled(c)
  \/ PollSelect("poll1") \/ PollClaim("poll1") \/ PollAfterSend("poll1")
  \/ PollEnd("poll1")
  \/ \E t \in Jobs \cup {"imm", "poll1"} : SendStep(t)
  \/ Tick

SpecCancel == InitCancel /\ [][NextCancel]_vars

\* The server.js process(es): ticks of setInterval, overlapping or of two
\* instances, and the cancel endpoint.
NextServer ==
  \/ \E x \in ServerPolls :
       XPollSelect(x) \/ XPollSend(x) \/ XPollAfterSend(x) \/ XPollEnd(x)
  \/ \E c \in Campaigns : CancelEndpoint(c)
  \/ \E t \in ServerPolls : NotifyStep(t) \/ NotifyStoreError(t)
  \/ Tick

SpecServer == InitServer /\ [][NextServer]_vars

\* Recurring rules as POST /api/campaigns stores them: daily at a minute of
\* the scaled clock, and an interval of one day.
RearmRules ==
  {Schedule("daily", Missing, m) : m \in {Missing, 1}}
    \cup {[Schedule("interval", Missing, Missing) EXCEPT
             !.interval_value = 1, !.interval_unit = "days"]}

\* Two recurring campaigns of server.js waiting in status 'draft', c1 due at 0
\* and c2 at 1.
InitRearm ==
  /\ InitProcess
  /\ \E rule \in RearmRules :
       campaigns =
         [c \in Campaigns |->
            [id |-> c, present |-> TRUE,
             site_id |-> IF c = "c1" THEN "A" ELSE "B",
             delivery_type |-> "recurring", status |-> "draft",
             scheduled_at |-> IF c = "c1" THEN 0 ELSE 1,
             segment_id |-> NULL, recurring_schedule |-> rule]]
  /\ sites = [x \in Sites |-> [present |-> TRUE, vapid_valid |-> TRUE]]
  /\ subscribers = [s \in Subs |->
                      [site_id |-> IF s <= 1 THEN "A" ELSE "B", is_active |-> TRUE]]
  /\ segment_members = [g \in Segments |-> {}]

\* The server.js process: ticks of setInterval, one after the other.
NextRearm ==
  \/ XPollSelect("xpoll1") \/ XPollSend("xpoll1") \/ XPollAfterSend("xpoll1")
  \/ XPollEnd("xpoll1")
  \/ NotifyStep("xpoll1")
  \/ Tick

SpecRearm == InitRearm /\ [][NextRearm]_vars


\* Two recurring campaigns with interval rules of one day, waiting in status
\* 'active': c1 was never sent and has its scheduled_at at the end of the run,
\* c2 was last sent at 0.
InitRecur ==
  /\ InitProcess
  /\ campaigns =
       [c \in Campaigns |->
          [id |-> c, present |-> TRUE,
           site_id |-> IF c = "c1" THEN "A" ELSE "B",
           delivery_type |-> "recurring", status |-> "active",
           scheduled_at |-> IF c = "c1" THEN MaxTime ELSE 0,
           segment_id |-> NULL,
           recurring_schedule |->
             [Schedule("interval", Missing, Missing) EXCEPT
                !.interval_value = 1, !.interval_unit = "days",
                !.last_sent = IF c = "c1" THEN NoTime ELSE 0]]]
  /\ sites = [x \in Sites |-> [present |-> TRUE, vapid_valid |-> TRUE]]
  /\ subscribers = [s \in Subs |->
                      [site_id |-> IF s <= 1 THEN "A" ELSE "B", is_active |-> TRUE]]
  /\ segment_members = [g \in Segments |-> {}]

\* The scheduler.js process: ticks of the recurring check.
NextRecur ==
  \/ \E p \in {"rpoll1"} :
       RPollSelect(p) \/ RPollSkip(p) \/ RPollSend(p) \/ RPollAfterSend(p) \/ RPollEnd(p)
  \/ \E t \in {"rpoll1"} : SendStep(t)
  \/ Tick

SpecRecur == InitRecur /\ [][NextRecur]_vars

\* The scheduler.js process: a tick of the recurring check fires whether or
\* not the check of the tick before has returned.
NextRecurOverlap ==
  \/ \E p \in RecurPolls :
       RPollSelect(p) \/ RPollSkip(p) \/ RPollSend(p) \/ RPollAfterSend(p) \/ RPollEnd(p)
  \/ \E t \in RecurPolls : SendStep(t)
  \/ Tick

SpecRecurOverlap == InitRecur /\ [][NextRecurOverlap]_vars

\* The scheduler.js process until it exits: ticks of the one-minute poll while
\* the service runs, the dispatches they started, stop() and the signals.
NextStop ==
  \/ ~proc.exited /\ proc.isRunning /\ PollSelect("poll1")
  \/ ~proc.exited /\ PollClaim("poll1")
  \/ ~proc.exited /\ PollAfterSend("poll1")
  \/ ~proc.exited /\ PollEnd("poll1")
  \/ ~proc.exited /\ SendStep("poll1")
  \/ ~proc.exited /\ proc.isRunning /\ Stop
  \/ ~proc.exited /\ Signal

SpecStop == InitOverlap /\ [][NextStop]_vars

\* One campaign with two subscribers, dispatched once by sendCampaign, while
\* the notifications sent are clicked and the stats are refreshed.
InitStats ==
  /\ InitProcess
  /\ SchedStore("scheduled", 0, 0, 2, {1, 2}, TRUE)

NextStats ==
  \/ dispatches = <<>> /\ ScheduleAt("c1", 0)
  \/ SendStep("imm")
  \/ \E r \in deliveries : Click(r)
  \/ Refresh("c1")
  \/ Tick

SpecStats == InitStats /\ [][NextStats]_vars

\* One dispatch of sendCampaign to every subscriber, in more than one batch,
\* in a process that can be ended at any point: the signal handler exits
\* without waiting, and the store keeps what was written until then.
InitCrash ==
  /\ InitProcess
  /\ SchedStore("scheduled", 0, 0, NumSubs, 1..NumSubs, TRUE)

NextCrash ==
  \/ ~proc.exited /\ dispatches = <<>> /\ ScheduleAt("c1", 0)
  \/ ~proc.exited /\ SendStep("imm")
  \/ ~proc.exited /\ Signal

SpecCrash == InitCrash /\ [][NextCrash]_vars

\* ------------------------------------------------- the recurrence calculator
\* The reference instants of the calls: the days of a week, ends of months of
\* different lengths, the end of a year and the last days of February in a
\* common and in a leap year, at times of day before, at and after the rules'.
CalcDays ==
  (0..6) \cup {DayNumber(2023, 0, 15), DayNumber(2023, 0, 31), DayNumber(2023, 1, 10),
              DayNumber(2023, 1, 28), DayNumber(2023, 3, 30), DayNumber(2023, 11, 31),
              DayNumber(2024, 0, 31), DayNumber(2024, 1, 29)}

CalcBases ==
  {[day |-> d, hour |-> h, minute |-> m, second |-> sec] :
     d \in CalcDays, h \in {0, 9, 23}, m \in {0, 30, 59}, sec \in {0, 30}}

\* Interval rules: every unit, and a unit getIntervalMilliseconds does not know.
IntervalRules ==
  {[Schedule("interval", Missing, Missing) EXCEPT
      !.interval_value = v, !.interval_unit = u] :
     v \in {1, 2}, u \in {"minutes", "hours", "days", "weeks"}}

\* The rules of the calls: daily rules of every hour and minute, weekly rules
\* of every weekday, monthly rules of days every month has and of days some
\* months lack, and interval rules.
CalcRules ==
  {Schedule("daily", h, m) : h \in 0..23, m \in 0..59}
    \cup {[Schedule("weekly", h, m) EXCEPT !.dayOfWeek = d] :
            h \in {0, 9, 23}, m \in {0, 30}, d \in 0..6}
    \cup {[Schedule("monthly", h, m) EXCEPT !.dayOfMonth = d] :
            h \in {0, 9, 23}, m \in {0, 30}, d \in {1, 15, 28, 29, 30, 31}}
    \cup IntervalRules

InitCalc ==
  /\ InitRuntime
  /\ SchedStore("draft", 1, 1, 1, {1, 2}, TRUE)
  /\ calc \in {[op |-> "call", rule |-> r, base |-> b] : r \in CalcRules, b \in CalcBases}

\* const nextTime = calculateNextScheduledTime(rule, base)
Calculate ==
  /\ calc.op = "call"
  /\ calc' = [op |-> "return", rule |-> calc.rule, base |-> calc.base,
               result |-> calculateNextScheduledTime(calc.rule, calc.base)]
  /\ UNCHANGED <<proc, now, store, vapidDetails, disp, dispatches, poll, jobs,
                 scheduledJobs, cancelLog>>

NextCalc == Calculate

SpecCalc == InitCalc /\ [][NextCalc]_vars

\* Rules with sub-fields absent; a rule carries a sub-field under the name
\* either implementation reads (dayOfWeek and day_of_week, dayOfMonth and day).
PartialRules ==
  {[Schedule(f, h, m) EXCEPT !.dayOfWeek = dw, !.day_of_week = dw,
                             !.dayOfMonth = dm, !.day = dm] :
     f \in {"daily", "weekly", "monthly"}, h \in {Missing, 9}, m \in {Missing, 30},
     dw \in {Missing, 3}, dm \in {Missing, 15}}

\* The instants of the calls with those rules: the days of a week and a 15th,
\* at the rules' times of day and at the times the defaults stand for.
RuleInstants ==
  {[day |-> d, hour |-> h, minute |-> m, second |-> 0] :
     d \in (0..6) \cup {DayNumber(2023, 0, 15)}, h \in {0, 9, 10}, m \in {0, 30}}

InitRules ==
  /\ InitRuntime
  /\ SchedStore("draft", 1, 1, 1, {1, 2}, TRUE)
  /\ calc \in {[op |-> o, rule |-> r, base |-> b] :
                o \in {"call", "ask"}, r \in PartialRules, b \in RuleInstants}

\* if (this.shouldSendNow(schedule)) at the instant calc.base
ShouldSend ==
  /\ calc.op = "ask"
  /\ calc' = [op |-> "answer", rule |-> calc.rule, base |-> calc.base,
               result |-> shouldSendNow(ScheduleRead(calc.rule), calc.base)]
  /\ UNCHANGED <<proc, now, store, vapidDetails, disp, dispatches, poll, jobs,
                 scheduledJobs, cancelLog>>

\* Both implementations of the recurrence logic on rules with absent fields.
NextRules == Calculate \/ ShouldSend

SpecRules == InitRules /\ [][NextRules]_vars

\* Rules with every sub-field present, midnight and Sunday among the values.
FullRules ==
  {[Schedule(f, h, m) EXCEPT !.dayOfWeek = dw, !.day_of_week = dw,
                             !.dayOfMonth = dm, !.day = dm] :
     f \in {"daily", "weekly", "monthly"}, h \in {0, 9}, m \in {0, 30},
     dw \in {0, 3}, dm \in {1, 15}}

InitFullRules ==
  /\ InitRuntime
  /\ SchedStore("draft", 1, 1, 1, {1, 2}, TRUE)
  /\ calc \in {[op |-> "ask", rule |-> r, base |-> b] :
                r \in FullRules, b \in RuleInstants}

\* The recurring check's decision on rules with every sub-field present.
SpecFullRules == InitFullRules /\ [][ShouldSend]_vars

\* cron.schedule('*/5 * * * *', ...): the minutes between two ticks of the
\* recurring check.
RecurringPeriod == 5

\* The first instant after t that the expression '*/5 * * * *' matches.
NextRecurringTick(t) ==
  LET total == t.hour * 60 + (t.minute \div RecurringPeriod + 1) * RecurringPeriod
  IN [day |-> t.day + total \div (24 * 60), hour |-> (total % (24 * 60)) \div 60,
      minute |-> total % 60, second |-> 0]

\* Times of day of the daily rules of the run.
DailyHours == {0, 9, 23}
DailyMinutes == {0, 7, 30}

\* The scheduler is started at the beginning of day 0 with one active daily
\* campaign that has not been sent: calc holds its rule, the instant of the
\* last tick of the recurring check, last_sent and the instants at which the
\* check dispatched it.
InitDaily ==
  /\ InitRuntime
  /\ SchedStore("draft", 1, 1, 1, {1, 2}, TRUE)
  /\ calc \in {[op |-> "tick", rule |-> Schedule("daily", h, m),
                base |-> [day |-> 0 - 1, hour |-> 23, minute |-> 55, second |-> 0],
                last_sent |-> NoDate, sent |-> {}] :
                h \in DailyHours, m \in DailyMinutes}

\* A tick of the recurring check with the campaign selected: shouldSendNow
\* at the instant of the tick and, when it is true, sendCampaign and the
\* write of last_sent (the dispatch returns within the minute).
RecurringTick ==
  LET at == NextRecurringTick(calc.base)
      fire == shouldSendNow([calc.rule EXCEPT !.last_sent = calc.last_sent], at)
  IN /\ calc.op = "tick"
     /\ at.day < TickDays
     /\ calc' = [calc EXCEPT !.base = at,
                             !.last_sent = IF fire THEN at ELSE @,
                             !.sent = IF fire THEN @ \cup {at} ELSE @]
     /\ UNCHANGED <<proc, now, store, vapidDetails, disp, dispatches, poll, jobs,
                    scheduledJobs, cancelLog>>

SpecDaily == InitDaily /\ [][RecurringTick]_vars

\* `${minute} ${hour} ${day} ${month} *` of scheduleAt: the fields of the
\* target date the expression keeps.
cronExpression(targetDate) ==
  [minute |-> targetDate.minute, hour |-> targetDate.hour,
   day |-> getDate(targetDate), month |-> getMonth(targetDate) + 1]

\* The instants a five-field expression matches: second 0 of its minute, on
\* its day and month of every year that has the day.
CronInstants(expr) ==
  {[day |-> DayNumber(y, expr.month - 1, expr.day), hour |-> expr.hour,
    minute |-> expr.minute, second |-> 0] :
     y \in {y \in Years : expr.day <= DaysInMonth(y, expr.month - 1)}}

\* The first instant after the instant from at which a job with the
\* expression fires.
FirstCronFire(expr, from) ==
  LET later == {d \in CronInstants(expr) : getTime(d) > getTime(from)}
  IN CHOOSE d \in later : \A e \in later : getTime(d) <= getTime(e)

\* The instants scheduleAt is called at, and the dates it is called with.
CronNows ==
  {[day |-> d, hour |-> h, minute |-> 0, second |-> sec] :
     d \in {0, DayNumber(2023, 5, 30)}, h \in {0, 12}, sec \in {0, 30}}

CronTargets ==
  {[day |-> d, hour |-> h, minute |-> m, second |-> sec] :
     d \in {0, 1, DayNumber(2023, 5, 30), DayNumber(2024, 1, 29), DayNumber(2024, 5, 15)},
     h \in {0, 12}, m \in {0, 30}, sec \in {0, 30}}

\* A call scheduleAt(campaignId, scheduledDate) is about to be made: calc holds
\* the instant of the call and the date.
InitCron ==
  /\ InitRuntime
  /\ SchedStore("scheduled", 1, 1, 1, {1, 2}, TRUE)
  /\ calc \in {[op |-> "scheduleAt", base |-> b, target |-> t] :
                b \in CronNows, t \in CronTargets}

\* scheduleAt at the instant calc.base: a date that has passed is sent at
\* once, for a later one a job with the cron expression is created.
CronArm ==
  /\ calc.op = "scheduleAt"
  /\ calc' = IF getTime(calc.target) <= getTime(calc.base)
               THEN [op |-> "sent", base |-> calc.base, target |-> calc.target,
                     at |-> calc.base]
               ELSE [op |-> "armed", base |-> calc.base, target |-> calc.target,
                     expr |-> cronExpression(calc.target)]
  /\ UNCHANGED <<proc, now, store, vapidDetails, disp, dispatches, poll, jobs,
                 scheduledJobs, cancelLog>>

\* The job fires for the first time and its callback calls sendCampaign.
CronFire ==
  /\ calc.op = "armed"
  /\ calc' = [op |-> "fired", base |-> calc.base, target |-> calc.target,
               at |-> FirstCronFire(calc.expr, calc.base)]
  /\ UNCHANGED <<proc, now, store, vapidDetails, disp, dispatches, poll, jobs,
                 scheduledJobs, cancelLog>>

NextCron == CronArm \/ CronFire

SpecCron == InitCron /\ [][NextCron]_vars


\* ================================================================= claims
Targets(d) == {d.subs[k] : k \in DOMAIN d.subs}

\* The delivery rows a dispatch created.
DispatchRows(d) == {r \in deliveries : r.id[1] = d.id}

InFlight(d) == {s \in Subs : d.att[s] = "inflight"}

\* C3 (as claimed): when a dispatch has returned, a targeted subscriber is
\* inactive exactly when its send of this dispatch failed with status 410.
C3_DeactivatedExactly410 ==
  \A t \in Tasks :
    disp[t].pc = "done" =>
      \A s \in Targets(disp[t]) :
        subscribers[s].is_active =
          ~(\E r \in DispatchRows(disp[t]) :
               r.subscriber_id = s /\ r.error_message = "gone")

C5_StatsMatchOutcome ==
  \A t \in Tasks :
    (disp[t].pc = "done" /\ disp[t].impl = "sched" /\ Len(disp[t].subs) > 0) =>
      \E x \in campaign_stats :
        /\ x.campaign_id = disp[t].campaignId
        /\ x.failed_count = disp[t].failureCount
        /\ x.sent_count = Len(disp[t].subs) - disp[t].failureCount

C7_RowBeforeSend ==
  \A t \in Tasks : \A s \in Subs :
    LET d == disp[t]
        rows == {r \in deliveries : r.id = <<d.id, s>>}
    IN /\ d.att[s] # "none" => rows # {}
       /\ d.att[s] = "inflight" => \A r \in rows : r.status = "queued"
       /\ \A r \in rows :
            r.status \in {"sent", "failed"} => d.att[s] \notin {"none", "inflight"}

\* C8: a dispatch never has more than batchSize sends in flight, and no
\* attempt of a later batch has begun while one of an earlier batch is
\* unfinished.
C8_BatchBound ==
  \A t \in Tasks :
    LET d == disp[t]
    IN /\ Cardinality(InFlight(d)) <= batchSize
       /\ \A k1, k2 \in DOMAIN d.subs :
            ((k1 - 1) \div batchSize < (k2 - 1) \div batchSize
               /\ d.att[d.subs[k2]] # "none")
              => d.att[d.subs[k1]] = "done"

\* A send of the second batch of a sendCampaign dispatch is in flight.
C8_Witness ==
  \E t \in Tasks :
    /\ disp[t].impl = "sched" /\ disp[t].pc = "batch"
    /\ disp[t].i >= batchSize
    /\ InFlight(disp[t]) # {}


PollTasks == SchedPolls \cup ServerPolls \cup RecurPolls

DispatchesOf(c, tasks) ==
  {k \in DOMAIN dispatches :
     dispatches[k].campaignId = c /\ dispatches[k].task \in tasks}

\* C1 (as claimed): however the polls interleave, a one-shot campaign is
\* dispatched by at most one of them.
C1_PolledOnce ==
  \A c \in Campaigns :
    campaigns[c].delivery_type = "scheduled" =>
      Cardinality(DispatchesOf(c, PollTasks)) <= 1

\* C2 (as claimed), for the timer that started the dispatch: a cancel call
\* made when the campaign's timer has fired, its dispatch has started and the
\* campaign has left its pending status returns false.
C2_LateCancelRefused ==
  \A e \in cancelLog :
    (e.started /\ e.fired /\ e.status \notin {"scheduled", "draft", "active"})
      => ~e.result

\* C9 (as claimed): the push sends in flight, over all invocations, never
\* exceed one campaign's batch size.
C9_SystemWideBound ==
  Cardinality({ts \in Tasks \X Subs : disp[ts[1]].att[ts[2]] = "inflight"})
    <= batchSize

\* C10 (as claimed): a timer whose arm was replaced by a later scheduleAt call
\* for the same campaign, made before it fired, never fires and so never
\* dispatches the campaign.
C10_RearmReplaces ==
  \A j \in Jobs :
    jobs[j].superseded =>
      /\ ~jobs[j].fired
      /\ DispatchesOf(jobs[j].campaignId, {j}) = {}

\* C11 (as claimed): once a cancel call has returned true for a campaign that
\* was pending and not yet dispatched, every later dispatch of the campaign
\* comes from a scheduleAt call made after the cancel: from a cron job created
\* after it or from an immediate send, never from a poll or an older job.
C11_CancelledNotDispatched ==
  \A e \in cancelLog :
    (e.result /\ ~e.started /\ e.status \in {"scheduled", "draft", "active"}) =>
      \A k \in DOMAIN dispatches :
        (k > e.dispatchesBefore /\ dispatches[k].campaignId = e.campaignId) =>
          dispatches[k].task \in (Jobs \cup {"imm"}) \ e.jobsBefore

\* The cron jobs of campaign c that can still fire.
ArmedJobs(js, c) ==
  {j \in Jobs : js[j].used /\ js[j].campaignId = c
                   /\ ~js[j].stopped /\ ~js[j].fired}

\* C12 (as claimed): a scheduleAt call with a timestamp at or before the
\* current time, which starts the dispatch at once, creates no cron job,
\* leaves scheduledJobs as it was, and leaves no timer armed for the campaign.
C12_PastScheduleArmsNothing ==
  [][(disp["imm"].pc = "idle" /\ disp'["imm"].pc = "load") =>
        /\ jobs' = jobs
        /\ scheduledJobs' = scheduledJobs
        /\ scheduledJobs'[disp'["imm"].campaignId] = NULL
        /\ ArmedJobs(jobs', disp'["imm"].campaignId) = {}]_vars

\* C13 (as claimed): when a poll has finished with a one-shot campaign whose
\* dispatch threw, the campaign's stored status is failed.
C13_FailedDispatchMarked ==
  [][\A p \in PollTasks :
       (/\ poll[p].pc = "sending" /\ disp[p].pc = "failed"
        /\ campaigns[disp[p].campaignId].delivery_type = "scheduled"
        /\ poll'[p].pc # "sending")
         => campaigns'[disp[p].campaignId].status = "failed"]_vars

\* C14 (as claimed): a poll that has ended has processed every campaign it
\* selected, whatever failed while it processed one of them.
C14_PollProcessesAll ==
  \A p \in PollTasks : poll[p].pc = "idle" => poll[p].queue = <<>>

\* The instant of day number d at the rule's hour:minute.
AtRuleTime(rule, d) ==
  [day |-> d, hour |-> rule.hour, minute |-> rule.minute, second |-> 0]

\* C18: for a daily rule the result is today at the rule's hour:minute when
\* the reference is strictly before that instant, and the next day at
\* hour:minute otherwise.
C18_DailyNext ==
  (calc.op = "return" /\ calc.rule.frequency = "daily") =>
    calc.result =
      IF getTime(calc.base) < getTime(AtRuleTime(calc.rule, calc.base.day))
        THEN AtRuleTime(calc.rule, calc.base.day)
        ELSE AtRuleTime(calc.rule, calc.base.day + 1)

\* A daily call has returned the first day of the next month.
C18_Witness ==
  /\ calc.op = "return" /\ calc.rule.frequency = "daily"
  /\ getMonth(calc.result) # getMonth(calc.base)
  /\ getDate(calc.result) = 1

\* C19: for a weekly rule the result is on the rule's weekday at the rule's
\* hour:minute, strictly after the reference and at most 7 days after it, and
\* no earlier day has that weekday with hour:minute after the reference.
C19_WeeklyNext ==
  (calc.op = "return" /\ calc.rule.frequency = "weekly") =>
    /\ calc.result = AtRuleTime(calc.rule, calc.result.day)
    /\ getDay(calc.result) = calc.rule.dayOfWeek
    /\ getTime(calc.result) > getTime(calc.base)
    /\ getTime(calc.result) - getTime(calc.base) <= 7 * 24 * 60 * 60
    /\ \A d \in calc.base.day .. (calc.result.day - 1) :
         ~(d % 7 = calc.rule.dayOfWeek
             /\ getTime(AtRuleTime(calc.rule, d)) > getTime(calc.base))

\* A weekly call on the rule's weekday, after the rule's time, has returned
\* the day 7 days ahead, in the next month.
C19_Witness ==
  /\ calc.op = "return" /\ calc.rule.frequency = "weekly"
  /\ getDay(calc.base) = calc.rule.dayOfWeek
  /\ calc.result.day = calc.base.day + 7
  /\ getMonth(calc.result) # getMonth(calc.base)

\* The day a monthly rule stands for in month m of year y (m = 12 is January
\* of the next year): the rule's day, or the month's last day when the month
\* is shorter.
ClampedDay(rule, y, m) == DayNumber(y, m, Min(rule.dayOfMonth, DaysInMonth(y + m \div 12, m % 12)))

\* C20 (as claimed): for a monthly rule the result is the rule's day, clamped
\* to the month's length, of the reference's month when that instant is after
\* the reference, and of the following month otherwise.
C20_MonthlyClamped ==
  (calc.op = "return" /\ calc.rule.frequency = "monthly") =>
    LET y == getFullYear(calc.base)
        m == getMonth(calc.base)
        thisMonth == AtRuleTime(calc.rule, ClampedDay(calc.rule, y, m))
        nextMonth == AtRuleTime(calc.rule, ClampedDay(calc.rule, y, m + 1))
    IN calc.result =
         IF getTime(thisMonth) > getTime(calc.base) THEN thisMonth ELSE nextMonth

\* C15 (as claimed): a poll starts the dispatch of a campaign only when the
\* campaign is a scheduled or recurring one and its scheduled_at is at or
\* before the current time.
C15_PollOnlyDue ==
  [][\A p \in PollTasks :
       (disp[p].pc = "idle" /\ disp'[p].pc # "idle") =>
         /\ campaigns[disp'[p].campaignId].delivery_type \in {"scheduled", "recurring"}
         /\ campaigns[disp'[p].campaignId].scheduled_at <= now]_vars

\* C16 (as claimed): the campaigns a poll has selected and still has to
\* process are at most PollLimit and in ascending scheduled_at order.
C16_PollOrderAndLimit ==
  /\ \A p \in SchedPolls :
       LET q == poll[p].queue
       IN /\ Len(q) <= PollLimit
          /\ \A i, j \in DOMAIN q :
               i < j => campaigns[q[i]].scheduled_at <= campaigns[q[j]].scheduled_at
  /\ \A x \in ServerPolls :
       LET q == poll[x].queue
       IN /\ Len(q) <= PollLimit
          /\ \A i, j \in DOMAIN q : i < j => q[i].scheduled_at <= q[j].scheduled_at

\* C17 (as claimed): when the process has exited, no dispatch is unfinished:
\* every invocation of the executor has returned or thrown.
C17_ExitAfterDispatch ==
  proc.exited => \A t \in Tasks : disp[t].pc \in {"idle", "done", "failed"}

\* C21 (as claimed): for an interval rule and the last fire time T the
\* calculator is called with, the next fire time is at least T plus
\* interval_value times the unit.
C21_IntervalNext ==
  (calc.op = "return" /\ calc.rule.frequency = "interval") =>
    getTime(calc.result) >=
      getTime(calc.base) + getIntervalMilliseconds(calc.rule.interval_value,
                                                   calc.rule.interval_unit)

\* The rule with the documented defaults in place of its absent sub-fields.
Defaulted(rule) ==
  [rule EXCEPT !.hour = IF @ = Missing THEN 0 ELSE @,
               !.minute = IF @ = Missing THEN 0 ELSE @,
               !.dayOfWeek = IF @ = Missing THEN 0 ELSE @,
               !.day_of_week = IF @ = Missing THEN 0 ELSE @,
               !.dayOfMonth = IF @ = Missing THEN 1 ELSE @,
               !.day = IF @ = Missing THEN 1 ELSE @]

\* calculateNextScheduledTime returns for a rule with absent sub-fields what
\* it returns for the rule with the defaults written out.
C22_CalculatorDefaults ==
  calc.op = "return" =>
    calc.result = calculateNextScheduledTime(Defaulted(calc.rule), calc.base)

\* shouldSendNow answers true for a rule with absent sub-fields only at an
\* instant that matches the rule with the defaults written out.
C22_CheckDefaults ==
  (calc.op = "answer" /\ calc.result) =>
    LET rule == Defaulted(calc.rule)
    IN /\ calc.base.hour = rule.hour /\ calc.base.minute = rule.minute
       /\ calc.rule.frequency = "weekly" => getDay(calc.base) = rule.day_of_week
       /\ calc.rule.frequency = "monthly" => getDate(calc.base) = rule.day

\* C22 (as claimed): for a rule with absent sub-fields either implementation
\* returns, and treats the rule as the one with hour 0, minute 0, day of week
\* 0 and day of month 1 in place of what is absent.
C22_MissingDefaults == C22_CalculatorDefaults /\ C22_CheckDefaults

\* C23 (as claimed): a call of the stats refresh that follows a call for the
\* same campaign on the same date, with the same delivery rows, leaves the
\* stats table as the first call left it, and the table never holds two rows
\* for one campaign and date.
C23_RefreshIdempotent ==
  /\ [][(/\ calc.op = "refresh" /\ calc'.op = "refresh" /\ calc'.n = calc.n + 1
          /\ calc'.campaignId = calc.campaignId
          /\ calc.deliveries = deliveries /\ calc.date = DateOf(now))
           => campaign_stats' = campaign_stats]_vars
  /\ [](\A x, y \in campaign_stats :
          (x.campaign_id = y.campaign_id /\ x.date = y.date) => x = y)

\* The campaigns with a cron job that has not fired and was not stopped.
ArmedCampaigns == {c \in Campaigns : ArmedJobs(jobs, c) # {}}

\* C24 (as claimed): a call of getStatus changes nothing of the scheduler,
\* and the ids it returns are exactly the campaigns with an armed timer that
\* has not fired and was not cancelled, the count being their number.
C24_StatusExact ==
  [][(calc.op = NULL /\ calc'.op = "getStatus") =>
        /\ UNCHANGED <<proc, now, store, vapidDetails, disp, dispatches, poll, jobs,
                       scheduledJobs, cancelLog>>
        /\ calc'.result.scheduledJobs = ArmedCampaigns
        /\ calc'.result.scheduledJobsCount = Cardinality(ArmedCampaigns)]_vars

\* The next fire time of a rule for the reference time at, as clock values:
\* the reference plus the interval for an interval rule, the calculator's
\* result for the others.
NextFireTime(rule, at) ==
  IF rule.frequency = "interval"
    THEN LET secs == getIntervalMilliseconds(rule.interval_value, rule.interval_unit)
         IN FromDate([ToDate(at) EXCEPT !.day = @ + secs \div (24 * 60 * 60),
                                        !.minute = @ + (secs % (24 * 60 * 60)) \div 60])
    ELSE FromDate(calculateNextScheduledTime(rule, ToDate(at)))

\* C25 (as claimed): when a poll has finished with a recurring campaign whose
\* dispatch returned, the campaign's scheduled_at is the next fire time of its
\* rule computed from the scheduled_at the poll read, and its status is the
\* pending status it was picked up in.
C25_RearmFromSchedule ==
  [][\A p \in ServerPolls \cup RecurPolls :
       (/\ poll[p].pc = "sending" /\ disp[p].pc = "done" /\ poll'[p].pc # "sending"
        /\ Head(poll[p].queue).delivery_type = "recurring") =>
         LET row == Head(poll[p].queue)
         IN /\ campaigns'[row.id].scheduled_at =
                 NextFireTime(row.recurring_schedule, row.scheduled_at)
            /\ campaigns'[row.id].status = row.status]_vars

\* C26 (as claimed): when a push send of a dispatch started by a poll is
\* issued, the campaign's stored status is none of the statuses a poll
\* selects on.
C26_ClaimedBeforeSend ==
  [][\A t \in PollTasks : \A s \in Subs :
       (disp[t].att[s] = "none" /\ disp'[t].att[s] = "inflight") =>
         campaigns[disp[t].campaignId].status \notin {"scheduled", "active", "draft"}]_vars

\* C27 (as claimed): a campaign whose stored status is cancelled or stopped
\* keeps that status in every step.
C27_CancelledTerminal ==
  [][\A c \in Campaigns :
       campaigns[c].status \in {"cancelled", "stopped"} =>
         campaigns'[c].status = campaigns[c].status]_vars

\* C28 (as claimed): every push send a dispatch has issued was made with the
\* keys of the site of the dispatch's campaign.
C28_OwnSiteKeys ==
  \A t \in Tasks : \A s \in Subs :
    disp[t].att[s] # "none" => disp[t].keys[s] = disp[t].campaign.site_id

\* C29 (as claimed): when a poll passes over a selected campaign without
\* calling the executor, because the write that claims it failed, the
\* campaign's stored status is left as it was, nothing is dispatched, and
\* the poll stays in its loop with the campaigns that remain.
C29_ClaimFailureSkips ==
  [][\A p \in SchedPolls :
       (/\ poll[p].pc = "loop" /\ poll[p].queue # <<>>
        /\ poll'[p].queue = Tail(poll[p].queue) /\ disp'[p] = disp[p]) =>
         /\ campaigns'[Head(poll[p].queue)].status = campaigns[Head(poll[p].queue)].status
         /\ dispatches' = dispatches
         /\ poll'[p].pc = "loop"]_vars

\* The subscribers of the batches of a dispatch that are over.
CompletedBatches(d) ==
  IF d.pc \in {"final", "stats", "done"} THEN Targets(d)
  ELSE IF d.pc = "batch" THEN {d.subs[k] : k \in 1..d.i}
  ELSE {}

C31_TargetsEligible ==
  /\ [][\A t \in Tasks :
          (disp[t].pc = "subs" /\ disp'[t].pc = "batch") =>
            \A s \in Targets(disp'[t]) :
              /\ subscribers[s].site_id = disp[t].campaign.site_id
              /\ subscribers[s].is_active
              /\ disp[t].campaign.segment_id # NULL =>
                    s \in segment_members[disp[t].campaign.segment_id]]_vars
  /\ [](\A t \in Tasks : \A s \in Subs :
          disp[t].att[s] # "none" => s \in Targets(disp[t]))

\* The status changes of a one-shot campaign the table allows.
StatusTable ==
  {<<"draft", "scheduled">>, <<"scheduled", "sending">>, <<"sending", "completed">>,
   <<"sending", "failed">>, <<"scheduled", "cancelled">>}

\* C32 (as claimed): a one-shot campaign's status is always one of draft,
\* scheduled, sending, completed, failed, cancelled, and every change of it
\* is a transition of the table.
C32_StatusTable ==
  /\ [](\A c \in Campaigns :
          campaigns[c].delivery_type = "scheduled" =>
            campaigns[c].status \in
              {"draft", "scheduled", "sending", "completed", "failed", "cancelled"})
  /\ [][\A c \in Campaigns :
          (campaigns[c].delivery_type = "scheduled"
             /\ campaigns'[c].status # campaigns[c].status) =>
            <<campaigns[c].status, campaigns'[c].status>> \in StatusTable]_vars

\* C33 (as claimed): a one-shot campaign is dispatched at most once, whoever
\* starts the dispatch: a poll, a timer, an immediate send or the endpoint.
C33_DispatchedOnce ==
  \A c \in Campaigns :
    campaigns[c].delivery_type = "scheduled" =>
      Cardinality(DispatchesOf(c, Tasks)) <= 1

\* C34 (as claimed): a delivery row changes only in a step of the dispatch that
\* inserted it; the rows of earlier dispatches of the same campaign and
\* subscriber keep their status and error message.
C34_OwnRowsOnly ==
  [][\A r \in deliveries :
       r \notin deliveries' =>
         \E t \in Tasks : disp[t].id = r.id[1] /\ disp'[t] # disp[t]]_vars

\* C35 (as claimed): while the process runs and every operation returns, a
\* one-shot campaign a poll moved to 'sending' eventually is 'completed' or
\* 'failed'.
C35_SendingEnds ==
  \A c \in Campaigns :
    (campaigns[c].delivery_type = "scheduled" /\ campaigns[c].status = "sending")
      ~> (campaigns[c].status \in {"completed", "failed"})

\* C36 (as claimed): two dispatches of a campaign with an interval rule that
\* the recurring check started are at least the rule's duration apart.
C36_IntervalApart ==
  \A i, j \in DOMAIN dispatches :
    LET c == dispatches[i].campaignId
        rule == campaigns[c].recurring_schedule
    IN (/\ i < j
        /\ dispatches[j].campaignId = c
        /\ dispatches[i].task \in RecurPolls /\ dispatches[j].task \in RecurPolls
        /\ rule.frequency = "interval") =>
          getTime(ToDate(dispatches[j].at)) - getTime(ToDate(dispatches[i].at))
            >= getIntervalMilliseconds(rule.interval_value, rule.interval_unit)

\* C37 (as claimed): once a tick of the recurring check has run at or after
\* h:m on a day, an active daily campaign with the rule (h, m) has been
\* dispatched on that day.
C37_DailyEveryDay ==
  calc.op = "tick" =>
    \A d \in 0..calc.base.day :
      getTime([day |-> d, hour |-> calc.rule.hour, minute |-> calc.rule.minute,
               second |-> 0]) <= getTime(calc.base)
        => \E at \in calc.sent : at.day = d

\* C38 (as claimed): when the poll of server.js has sent a recurring campaign,
\* the scheduled_at it writes is later than the scheduled_at it replaces.
C38_RearmLater ==
  [][\A x \in ServerPolls :
       (/\ poll[x].pc = "sending" /\ poll'[x].pc = "loop" /\ disp[x].pc = "done"
        /\ Head(poll[x].queue).delivery_type = "recurring")
         => campaigns'[Head(poll[x].queue).id].scheduled_at
              > campaigns[Head(poll[x].queue).id].scheduled_at]_vars

\* C39 (as claimed): the job scheduleAt created for a future date does not
\* dispatch the campaign before that date.
C39_NotBeforeTarget ==
  calc.op = "fired" => getTime(calc.at) >= getTime(calc.target)

\* C40 (as claimed): shouldSendNow answers true for a daily, weekly or monthly
\* rule only at an instant whose hour and minute are the rule's, whose weekday
\* is the rule's day_of_week (weekly) and whose day of month is the rule's day
\* (monthly).
C40_FiresAtRuleTime ==
  (calc.op = "answer" /\ calc.result) =>
    /\ calc.base.hour = calc.rule.hour
    /\ calc.base.minute = calc.rule.minute
    /\ calc.rule.frequency = "weekly" => getDay(calc.base) = calc.rule.day_of_week
    /\ calc.rule.frequency = "monthly" => getDate(calc.base) = calc.rule.day

====
